---- MODULE Spec2Model ----
(***************************************************************************)
(* Game State Engine of "Lily's Life": the time-progression state machine, *)
(* the equipment resolver, the turn pipeline (processTurn and the response *)
(* it awaits), the undo stack, new game and load.                          *)
(*                                                                         *)
(* Indices are 1-based here where the TypeScript source is 0-based.        *)
(* A React state update made by a handler is one atomic step: handlers run *)
(* to their first await on a rendered state, and the functional updates    *)
(* (prev => ...) are applied to the state current at that moment.          *)
(***************************************************************************)
EXTENDS Integers, Sequences, FiniteSets, TLC

(***************************************************************************)
(* Bounds of the model (not program constants).                            *)
(***************************************************************************)
\* most calls of processTurn in a run of the session
MaxTurns == 2
\* most items (inventory plus occupied slots) the dev add / force-equip
\* surface may bring into the world
MaxItems == 10
\* last day the dev force-advance may start from
MaxDay == 1
\* largest slotsUsed given to advanceTime as an input
MaxSlots == 3

(***************************************************************************)
(* types.ts                                                                *)
(***************************************************************************)
StatType ==
  { "CONFIDENCE", "WILL", "WIT", "GRACE", "UTILITY", "AWARENESS",
    "VITALITY", "FINANCE", "SOCIAL_CLASS", "BLUSH", "FATIGUE", "VULNERABILITY",
    "MALE_GAZE", "FEMALE_JUDGE", "DANGER" }

\* Object.values(TimeSegment), in declaration order
TimeSegment ==
  << "Pre-Dawn", "Dawn", "Morning", "Day", "Evening", "Night", "Post-Night" >>

\* the keys of GameState['equipped']
SlotKeys ==
  { "top", "bottom", "footwear", "underwearTop", "underwearBottom",
    "accessory", "fullBody" }

\* an empty equipment slot (null)
Null == [id |-> "null", type |-> "None", stats |-> << >>]

(***************************************************************************)
(* constants.ts                                                            *)
(***************************************************************************)
INITIAL_STATS ==
  [s \in StatType |->
     CASE s \in {"CONFIDENCE", "WILL", "WIT", "GRACE", "UTILITY", "AWARENESS"} -> 10
       [] s \in {"VITALITY", "FINANCE"} -> 100
       [] OTHER -> 0]

ITEM_DATABASE ==
  << [id |-> "foot_sneakers_chucks_01", type |-> "Footwear",
      stats |-> [UTILITY |-> 3, SOCIAL_CLASS |-> -1, AWARENESS |-> -5]],
     [id |-> "foot_heels_pumps_01", type |-> "Footwear",
      stats |-> [UTILITY |-> -10, SOCIAL_CLASS |-> 10, MALE_GAZE |-> 8,
                 FEMALE_JUDGE |-> 10, AWARENESS |-> 20]],
     [id |-> "btm_pants_yoga_01", type |-> "Bottom",
      stats |-> [UTILITY |-> 8, SOCIAL_CLASS |-> -3, MALE_GAZE |-> 15,
                 FEMALE_JUDGE |-> 10]],
     [id |-> "btm_skirt_mini_01", type |-> "Bottom",
      stats |-> [UTILITY |-> -2, SOCIAL_CLASS |-> 2, MALE_GAZE |-> 12,
                 AWARENESS |-> 10]],
     [id |-> "top_blouse_silk_01", type |-> "Top",
      stats |-> [UTILITY |-> -3, SOCIAL_CLASS |-> 15, FEMALE_JUDGE |-> 8,
                 MALE_GAZE |-> 3]],
     [id |-> "top_tank_wifebeater_01", type |-> "Top",
      stats |-> [UTILITY |-> 1, SOCIAL_CLASS |-> -10, FEMALE_JUDGE |-> -10,
                 MALE_GAZE |-> 5]],
     [id |-> "und_top_lace_01", type |-> "Underwear_Top",
      stats |-> [MALE_GAZE |-> 5]],
     [id |-> "und_btm_lace_01", type |-> "Underwear_Bottom",
      stats |-> [MALE_GAZE |-> 5]],
     [id |-> "outfit_dress_sundress_01", type |-> "FullBody",
      stats |-> [UTILITY |-> -1, SOCIAL_CLASS |-> 5, MALE_GAZE |-> 8,
                 AWARENESS |-> 10]] >>

\* Object.keys(NPC_IMAGES): the four characters STARTING_RELATIONSHIPS names
\* and two of the thirty-six others, all of which initRelationships treats
\* alike
NPC_NAMES ==
  { "Ramone", "Ashley", "Mitch", "Jax", "Veronica", "Helena" }

Rel(t, a, f) == [trust |-> t, attraction |-> a, familiarity |-> f]

STARTING_RELATIONSHIPS ==
  [n \in {"Mitch", "Ashley", "Veronica", "Jax"} |->
     CASE n = "Mitch" -> Rel(100, 0, 100)
       [] n = "Ashley" -> Rel(50, 0, 50)
       [] OTHER -> Rel(10, 0, 0)]

initRelationships ==
  [n \in NPC_NAMES |->
     IF n \in DOMAIN STARTING_RELATIONSHIPS
       THEN STARTING_RELATIONSHIPS[n]
       ELSE Rel(0, 0, 0)]

Entry(r, t) == [role |-> r, text |-> t, retracted |-> FALSE]

NoConfig == [present |-> FALSE, tutorial |-> FALSE]

\* INITIAL_GAME_STATE, with the inventory prepopulated from the catalog
INITIAL_GAME_STATE ==
  [ stats |-> INITIAL_STATS,
    inventory |-> ITEM_DATABASE,
    equipped |-> [k \in SlotKeys |-> Null],
    time |-> [day |-> 0, segment |-> "Pre-Dawn", slotsUsed |-> 0],
    location |-> "home_lily_bedroom",
    history |-> << Entry("model", "WELCOME") >>,
    npcRelationships |-> initRelationships,
    config |-> NoConfig ]

(***************************************************************************)
(* Equipment resolver (App.tsx, CentralPanel)                              *)
(***************************************************************************)
getSlotFromType(type) ==
  CASE type = "Top" -> "top"
    [] type = "Bottom" -> "bottom"
    [] type = "Footwear" -> "footwear"
    [] type = "Accessory" -> "accessory"
    [] type = "Underwear_Top" -> "underwearTop"
    [] type = "Underwear_Bottom" -> "underwearBottom"
    [] type = "FullBody" -> "fullBody"
    [] OTHER -> "accessory"

\* a removal that ignores the index and drops the last element (pop)
RemoveAt_Last(s, i) == [k \in 1..(Len(s) - 1) |-> s[k]]

\* Array.prototype.splice(index, 1) on a copy: the array without position i
RemoveAt(s, i) == [k \in 1..(Len(s) - 1) |-> IF k < i THEN s[k] ELSE s[k + 1]]

\* a vacate that leaves the slot as it is
Vacate_Nothing(p, slot) == p

\* "if (eq[slot]) { inv.push(eq[slot]); eq[slot] = null; }" on the pair
\* p = [inventory, equipped]
Vacate(p, slot) ==
  IF p.equipped[slot] # Null
    THEN [inventory |-> Append(p.inventory, p.equipped[slot]),
          equipped |-> [p.equipped EXCEPT ![slot] = Null]]
    ELSE p

\* a swap that overwrites the slot and loses its occupant
Swap_Lossy(p, slotKey, item) ==
  [inventory |-> p.inventory,
   equipped |-> [p.equipped EXCEPT ![slotKey] = item]]

\* "const cur = eq[slotKey]; if (cur) inv.push(cur); eq[slotKey] = item;"
Swap(p, slotKey, item) ==
  [inventory |-> IF p.equipped[slotKey] # Null
                   THEN Append(p.inventory, p.equipped[slotKey])
                   ELSE p.inventory,
   equipped |-> [p.equipped EXCEPT ![slotKey] = item]]

\* the updater of handleEquip on prev, for an index that names an item
handleEquip(prev, index) ==
  LET item == prev.inventory[index]
      slotKey == getSlotFromType(item.type)
      p0 == [inventory |-> RemoveAt(prev.inventory, index),
             equipped |-> prev.equipped]
      p1 == IF item.type = "FullBody"
              THEN Vacate(Vacate(p0, "top"), "bottom")
              ELSE p0
      p2 == Swap(p1, slotKey, item)
  IN  [prev EXCEPT !.inventory = p2.inventory, !.equipped = p2.equipped]

\* an add-to-inventory that costs a slot of the segment
handleDevAdd_TakesSlot(prev, item) ==
  [prev EXCEPT !.inventory = Append(@, item),
               !.time = [@ EXCEPT !.slotsUsed = @ + 1]]

\* the updater of handleDevAdd
handleDevAdd(prev, item) ==
  [prev EXCEPT !.inventory = Append(prev.inventory, item)]

\* a forced equip that takes the item out of the inventory when it is there
handleDevForceEquip_FromInventory(prev, item) ==
  LET slotKey == getSlotFromType(item.type)
      owned == {i \in 1..Len(prev.inventory) : prev.inventory[i] = item}
      p0 == [inventory |-> IF owned = {} THEN prev.inventory
                           ELSE RemoveAt(prev.inventory,
                                         CHOOSE i \in owned : \A j \in owned : i <= j),
             equipped |-> prev.equipped]
      p1 == IF item.type = "FullBody"
              THEN Vacate(Vacate(p0, "top"), "bottom")
              ELSE p0
      p2 == IF item.type = "Top" \/ item.type = "Bottom"
              THEN Vacate(p1, "fullBody")
              ELSE p1
      p3 == Swap(p2, slotKey, item)
  IN  [prev EXCEPT !.inventory = p3.inventory, !.equipped = p3.equipped]

\* the updater of handleDevForceEquip
handleDevForceEquip(prev, item) ==
  LET slotKey == getSlotFromType(item.type)
      p0 == [inventory |-> prev.inventory, equipped |-> prev.equipped]
      p1 == IF item.type = "FullBody"
              THEN Vacate(Vacate(p0, "top"), "bottom")
              ELSE p0
      p2 == IF item.type = "Top" \/ item.type = "Bottom"
              THEN Vacate(p1, "fullBody")
              ELSE p1
      p3 == Swap(p2, slotKey, item)
  IN  [prev EXCEPT !.inventory = p3.inventory, !.equipped = p3.equipped]

(***************************************************************************)
(* utils/mechanics.ts                                                      *)
(***************************************************************************)
\* segments.indexOf(seg), 1-based
IndexOf(seg) == CHOOSE i \in 1..Len(TimeSegment) : TimeSegment[i] = seg

\* an advance that lets a normal segment take a fourth slot
advanceTime_FourSlots(currentSegment, slotsUsed) ==
  LET currentIndex == IndexOf(currentSegment)
      nextIndex == currentIndex + 1
  IN  IF currentSegment = "Pre-Dawn"
        THEN [segment |-> "Dawn", slots |-> 0, newDay |-> FALSE]
      ELSE IF currentSegment = "Post-Night"
        THEN [segment |-> "Pre-Dawn", slots |-> 0, newDay |-> TRUE]
      ELSE IF slotsUsed <= 2
        THEN [segment |-> currentSegment, slots |-> slotsUsed + 1,
              newDay |-> FALSE]
      ELSE IF nextIndex <= Len(TimeSegment)
        THEN [segment |-> TimeSegment[nextIndex], slots |-> 0,
              newDay |-> FALSE]
        ELSE [segment |-> "Pre-Dawn", slots |-> 0, newDay |-> TRUE]

\* an advance whose bound on the next index is one too small, so that the
\* fail-safe branch ends the day at Night
advanceTime_DayAtNight(currentSegment, slotsUsed) ==
  LET currentIndex == IndexOf(currentSegment)
      nextIndex == currentIndex + 1
  IN  IF currentSegment = "Pre-Dawn"
        THEN [segment |-> "Dawn", slots |-> 0, newDay |-> FALSE]
      ELSE IF currentSegment = "Post-Night"
        THEN [segment |-> "Pre-Dawn", slots |-> 0, newDay |-> TRUE]
      ELSE IF slotsUsed < 2
        THEN [segment |-> currentSegment, slots |-> slotsUsed + 1,
              newDay |-> FALSE]
      ELSE IF nextIndex < Len(TimeSegment)
        THEN [segment |-> TimeSegment[nextIndex], slots |-> 0,
              newDay |-> FALSE]
        ELSE [segment |-> "Pre-Dawn", slots |-> 0, newDay |-> TRUE]

\* an advance that leaves Pre-Dawn for Morning
advanceTime_SkipsDawn(currentSegment, slotsUsed) ==
  LET currentIndex == IndexOf(currentSegment)
      nextIndex == currentIndex + 1
  IN  IF currentSegment = "Pre-Dawn"
        THEN [segment |-> "Morning", slots |-> 0, newDay |-> FALSE]
      ELSE IF currentSegment = "Post-Night"
        THEN [segment |-> "Pre-Dawn", slots |-> 0, newDay |-> TRUE]
      ELSE IF slotsUsed < 2
        THEN [segment |-> currentSegment, slots |-> slotsUsed + 1,
              newDay |-> FALSE]
      ELSE IF nextIndex <= Len(TimeSegment)
        THEN [segment |-> TimeSegment[nextIndex], slots |-> 0,
              newDay |-> FALSE]
        ELSE [segment |-> "Pre-Dawn", slots |-> 0, newDay |-> TRUE]

\* an advance that gives a normal segment two slots
advanceTime_TwoSlots(currentSegment, slotsUsed) ==
  LET currentIndex == IndexOf(currentSegment)
      nextIndex == currentIndex + 1
  IN  IF currentSegment = "Pre-Dawn"
        THEN [segment |-> "Dawn", slots |-> 0, newDay |-> FALSE]
      ELSE IF currentSegment = "Post-Night"
        THEN [segment |-> "Pre-Dawn", slots |-> 0, newDay |-> TRUE]
      ELSE IF slotsUsed < 1
        THEN [segment |-> currentSegment, slots |-> slotsUsed + 1,
              newDay |-> FALSE]
      ELSE IF nextIndex <= Len(TimeSegment)
        THEN [segment |-> TimeSegment[nextIndex], slots |-> 0,
              newDay |-> FALSE]
        ELSE [segment |-> "Pre-Dawn", slots |-> 0, newDay |-> TRUE]

advanceTime(currentSegment, slotsUsed) ==
  LET currentIndex == IndexOf(currentSegment)
      nextIndex == currentIndex + 1
  IN  IF currentSegment = "Pre-Dawn"
        THEN [segment |-> "Dawn", slots |-> 0, newDay |-> FALSE]
      ELSE IF currentSegment = "Post-Night"
        THEN [segment |-> "Pre-Dawn", slots |-> 0, newDay |-> TRUE]
      ELSE IF slotsUsed < 2
        THEN [segment |-> currentSegment, slots |-> slotsUsed + 1,
              newDay |-> FALSE]
      ELSE IF nextIndex <= Len(TimeSegment)
        THEN [segment |-> TimeSegment[nextIndex], slots |-> 0,
              newDay |-> FALSE]
        ELSE [segment |-> "Pre-Dawn", slots |-> 0, newDay |-> TRUE]

\* the return statements of an advance without the Post-Night case
advanceBranch_NoPostNight(currentSegment, slotsUsed) ==
  LET currentIndex == IndexOf(currentSegment)
      nextIndex == currentIndex + 1
  IN  IF currentSegment = "Pre-Dawn" THEN "preDawn"
      ELSE IF slotsUsed < 2 THEN "sameSegment"
      ELSE IF nextIndex <= Len(TimeSegment) THEN "nextSegment"
      ELSE "failSafe"

\* the return statement by which advanceTime(currentSegment, slotsUsed)
\* leaves
advanceBranch(currentSegment, slotsUsed) ==
  LET currentIndex == IndexOf(currentSegment)
      nextIndex == currentIndex + 1
  IN  IF currentSegment = "Pre-Dawn" THEN "preDawn"
      ELSE IF currentSegment = "Post-Night" THEN "postNight"
      ELSE IF slotsUsed < 2 THEN "sameSegment"
      ELSE IF nextIndex <= Len(TimeSegment) THEN "nextSegment"
      ELSE "failSafe"

Min(a, b) == IF a < b THEN a ELSE b
Max(a, b) == IF a > b THEN a ELSE b

\* Object.values(equipped): the slots in the order the object declares them
EquippedOrder ==
  << "top", "bottom", "footwear", "underwearTop", "underwearBottom",
     "accessory", "fullBody" >>

\* "Object.entries(item.stats).forEach(...)": the modifiers of one item whose
\* stat currentStats has
AddModifiers(currentStats, item) ==
  [k \in DOMAIN currentStats |->
     IF k \in DOMAIN item.stats THEN currentStats[k] + item.stats[k]
                                ELSE currentStats[k]]

\* "items.forEach(item => ...)"
RECURSIVE AddItems(_, _)
AddItems(currentStats, items) ==
  IF items = << >> THEN currentStats
  ELSE AddItems(AddModifiers(currentStats, Head(items)), Tail(items))

\* a calculation that keeps its results in [0, 100]
calculateStats_Clamped(baseStats, equipped) ==
  LET items == SelectSeq([i \in 1..Len(EquippedOrder) |-> equipped[EquippedOrder[i]]],
                         LAMBDA it : it # Null)
      sums == AddItems(baseStats, items)
  IN  [k \in DOMAIN sums |-> Max(0, Min(100, sums[k]))]

\* calculateStats(baseStats, equipped): currentStats is a copy of baseStats,
\* which is left as it was
calculateStats(baseStats, equipped) ==
  LET items == SelectSeq([i \in 1..Len(EquippedOrder) |-> equipped[EquippedOrder[i]]],
                         LAMBDA it : it # Null)
  IN  AddItems(baseStats, items)

(***************************************************************************)
(* Turn pipeline (App.tsx, processTurn), as functions of the state         *)
(***************************************************************************)
\* JSON.parse(JSON.stringify(x)): a copy that shares no object with x; every
\* value a GameState holds here (numbers, strings, null, arrays, plain
\* objects) survives the round trip
DeepCopy(x) == x

\* a rollover that restores the vitality and keeps the fatigue
Rollover_KeepsFatigue(stats, newDay) ==
  IF newDay
    THEN [stats EXCEPT !["VITALITY"] = Min(100, @ + 50)]
    ELSE stats

\* a rollover that adds the night's rest without the cap
Rollover_NoCap(stats, newDay) ==
  IF newDay
    THEN [stats EXCEPT !["VITALITY"] = @ + 50, !["FATIGUE"] = 0]
    ELSE stats

\* "if (timeResult.newDay) { VITALITY = min(100, VITALITY + 50); FATIGUE = 0 }"
Rollover(stats, newDay) ==
  IF newDay
    THEN [stats EXCEPT !["VITALITY"] = Min(100, @ + 50), !["FATIGUE"] = 0]
    ELSE stats

\* a turn start that leaves the clock for the response to advance
TurnStarted_TimeDeferred(gs, text) ==
  [gs EXCEPT !.history = Append(gs.history, Entry("user", text))]

\* newState of processTurn: rollover, time update, the player's entry
TurnStarted(gs, text) ==
  LET timeResult == advanceTime(gs.time.segment, gs.time.slotsUsed)
  IN  [gs EXCEPT
        !.stats = Rollover(gs.stats, timeResult.newDay),
        !.time = [day |-> IF timeResult.newDay THEN gs.time.day + 1
                                                ELSE gs.time.day,
                  segment |-> timeResult.segment,
                  slotsUsed |-> timeResult.slots],
        !.history = Append(gs.history, Entry("user", text))]

\* The snapshot pushed by "setStateHistory(prev => [...prev, copy(gameState)])".
\* The copy is taken when React runs the updater: at once when the update
\* queue is empty (eager), else at the next render, after processTurn has
\* written the rollover into the stats object that gameState still holds.
Snapshot(gs, eager) ==
  IF eager
    THEN DeepCopy(gs)
    ELSE DeepCopy([gs EXCEPT !.stats = TurnStarted(gs, "").stats])

\* a clamp with no floor
Clamp_NoFloor(v) == Min(100, v)

Clamp(v) == Max(0, Min(100, v))

\* 1. Stats: every entry of statChanges whose key the stat table has
ApplyStatChanges(stats, statChanges) ==
  [k \in DOMAIN stats |->
     IF k \in DOMAIN statChanges THEN Clamp(stats[k] + statChanges[k])
                                 ELSE stats[k]]

\* a money change clamped like a stat change
ApplyMoneyChange_Clamped(stats, moneyChange) ==
  IF moneyChange # 0
    THEN [stats EXCEPT !["FINANCE"] = Max(0, Min(100, @ + moneyChange))]
    ELSE stats

\* 2. Money
ApplyMoneyChange(stats, moneyChange) ==
  IF moneyChange # 0
    THEN [stats EXCEPT !["FINANCE"] = @ + moneyChange]
    ELSE stats

\* a move that is made only to the places the game has
ApplyLocationChange_Validated(location, locationChange) ==
  IF locationChange \in {"home_lily_bedroom", "cafe_downtown"}
    THEN locationChange ELSE location

\* 3. Location
ApplyLocationChange(location, locationChange) ==
  IF locationChange # "" THEN locationChange ELSE location

\* a sub-field moved by the change with no ceiling
ApplyField_NoCeiling(old, change) ==
  IF change # 0 THEN Max(0, old + change) ELSE old

\* a sub-field set to the change instead of moved by it
ApplyField_Overwrite(old, change) ==
  IF change # 0 THEN Max(0, Min(100, change)) ELSE old

\* one sub-field: "if (change.f) rel.f = clamp(rel.f + change.f)"
ApplyField(old, change) == IF change # 0 THEN Clamp(old + change) ELSE old

\* 4. Relationships, with discovery of unknown characters
ApplyRelationshipChanges(rels, changes) ==
  [npc \in (DOMAIN rels) \cup (DOMAIN changes) |->
     IF npc \in DOMAIN changes
       THEN LET rel == IF npc \in DOMAIN rels THEN rels[npc] ELSE Rel(0, 0, 0)
                c == changes[npc]
            IN  [rel EXCEPT !.trust = ApplyField(@, c.trust),
                            !.attraction = ApplyField(@, c.attraction),
                            !.familiarity = ApplyField(@, c.familiarity)]
       ELSE rels[npc]]

\* an updater that writes the delta onto the outfit and inventory the game
\* started with, not the ones of the current state
ApplyUpdates_OnStartOutfit(current, updates) ==
  [current EXCEPT
     !.stats = ApplyMoneyChange(ApplyStatChanges(@, updates.statChanges),
                                updates.moneyChange),
     !.location = ApplyLocationChange(@, updates.locationChange),
     !.npcRelationships = ApplyRelationshipChanges(@, updates.relationshipChanges),
     !.equipped = INITIAL_GAME_STATE.equipped,
     !.inventory = INITIAL_GAME_STATE.inventory]

\* the "if (updates) { ... }" block of the response updater
ApplyUpdates(current, updates) ==
  [current EXCEPT
     !.stats = ApplyMoneyChange(ApplyStatChanges(@, updates.statChanges),
                                updates.moneyChange),
     !.location = ApplyLocationChange(@, updates.locationChange),
     !.npcRelationships = ApplyRelationshipChanges(@, updates.relationshipChanges)]

\* a response updater that appends the narrative and leaves the delta out
ApplyResponse_NarrativeOnly(current, parsed, updates, narrativeText) ==
  [current EXCEPT !.history = Append(@, Entry("model", narrativeText))]

\* the response updater: the delta if the response parsed, then the narrative
ApplyResponse(current, parsed, updates, narrativeText) ==
  LET nextState == IF parsed THEN ApplyUpdates(current, updates) ELSE current
  IN  [nextState EXCEPT !.history = Append(@, Entry("model", narrativeText))]

\* a catch block that reports the failure twice
ApplyFailure_TwoNotices(current) ==
  [current EXCEPT !.history = Append(Append(@, Entry("model", "ERROR_CONNECTING")),
                                     Entry("model", "ERROR_CONNECTING"))]

\* the catch block: the failure notice
ApplyFailure(current) ==
  [current EXCEPT !.history = Append(@, Entry("model", "ERROR_CONNECTING"))]

\* restoredState of handleUndo
\* a restore that re-appends the entries without marking them
Retract_Unmarked(item) == item

Retract(item) == [item EXCEPT !.retracted = TRUE]

RestoredState(previousState, current) ==
  LET prevHistoryLength == Len(previousState.history)
      retractedItems ==
        [k \in 1..Max(0, Len(current.history) - prevHistoryLength) |->
           Retract(current.history[prevHistoryLength + k])]
  IN  [previousState EXCEPT !.history = previousState.history \o retractedItems]

\* newState of handleNewGameConfig, from the INITIAL_GAME_STATE object as it
\* is at that moment
NewGameState(initial, tutorial) ==
  [DeepCopy(INITIAL_GAME_STATE) EXCEPT
     !.stats = DeepCopy(initial.stats),
     !.npcRelationships = DeepCopy(initial.npcRelationships),
     !.config = [present |-> TRUE, tutorial |-> tutorial],
     !.history = << Entry("model", IF tutorial THEN "TUTORIAL_START_TEXT"
                                               ELSE "GAME_START_TEXT") >>,
     !.time = [@ EXCEPT !.day = IF tutorial THEN 0 ELSE 1]]

(***************************************************************************)
(* State of the App component                                              *)
(***************************************************************************)
VARIABLES
  gameState,            \* useState<GameState>
  stateHistory,         \* useState<GameState[]>: the undo stack
  isProcessing,         \* the busy flag
  pending,              \* processTurn calls awaiting the narrative response,
                        \* submitted in the current session
  orphaned,             \* the same, submitted before the last new game / load
  generatedChoices,     \* generatedChoices.length > 0
  isGeneratingChoices,  \* a generateChoices call is awaiting its response
  initialObj,           \* the stats and npcRelationships objects of the
                        \* module-level INITIAL_GAME_STATE (written in place
                        \* while the live state shares them)
  sharesInitial,        \* which of those objects the live state still holds:
                        \* the stats object, the npcRelationships map, and,
                        \* once the map has been copied, the records in it
  turns,                \* calls of processTurn so far
  lastOp                \* the handler that last set the game state or the stack

vars == << gameState, stateHistory, isProcessing, pending, orphaned,
           generatedChoices, isGeneratingChoices, initialObj, sharesInitial,
           turns, lastOp >>

\* everything but the game state and lastOp
appVars == << stateHistory, isProcessing, pending, orphaned,
              generatedChoices, isGeneratingChoices, initialObj, sharesInitial,
              turns >>

\* lastOp: the handler, and for the equipment handlers the item it was given
\* (with its inventory index, 0 if none) and the slots occupied before it ran
OpOn(name, index, item, was) ==
  [op |-> name, index |-> index, item |-> item, was |-> was]
Op(name) == OpOn(name, 0, Null, {})

\* sharesInitial at boot, when gameState is INITIAL_GAME_STATE itself, and
\* after a deep copy or a load; rels counts only once the map is a copy
AllShared == [stats |-> TRUE, map |-> TRUE, rels |-> {}]
NoSharing == [stats |-> FALSE, map |-> FALSE, rels |-> {}]

Init ==
  /\ gameState = INITIAL_GAME_STATE
  /\ stateHistory = << >>
  /\ isProcessing = FALSE
  /\ pending = 0
  /\ orphaned = 0
  /\ generatedChoices = FALSE
  /\ isGeneratingChoices = FALSE
  /\ initialObj = [stats |-> INITIAL_STATS, npcRelationships |-> initRelationships]
  /\ sharesInitial = AllShared
  /\ turns = 0
  /\ lastOp = Op("boot")

(***************************************************************************)
(* Equipment actions                                                       *)
(***************************************************************************)
\* |inventory| + |occupied slots|
Occupied(st) == {k \in SlotKeys : st.equipped[k] # Null}
ItemCount(st) == Len(st.inventory) + Cardinality(Occupied(st))

\* an equip that takes the last item when the index names none
Equip_Clamped(index) ==
  /\ Len(gameState.inventory) > 0
  /\ LET i == IF index \in 1..Len(gameState.inventory)
                THEN index ELSE Len(gameState.inventory)
     IN  /\ gameState' = handleEquip(gameState, i)
         /\ lastOp' = OpOn("equip", index, gameState.inventory[i],
                           Occupied(gameState))
  /\ UNCHANGED appVars

\* handleEquip(index): "if (!itemToEquip) return;" makes a missing index a no-op
Equip(index) ==
  /\ IF index \in 1..Len(gameState.inventory)
       THEN /\ gameState' = handleEquip(gameState, index)
            /\ lastOp' = OpOn("equip", index, gameState.inventory[index],
                              Occupied(gameState))
       ELSE /\ gameState' = gameState
            /\ lastOp' = OpOn("equip_noop", index, Null, Occupied(gameState))
  /\ UNCHANGED appVars

\* handleDrop: the dragged index, dropped on targetSlot; equips only if the
\* index names an item and the item's slot is the target
handleDrop(index, targetSlot) ==
  IF /\ index \in 1..Len(gameState.inventory)
     /\ getSlotFromType(gameState.inventory[index].type) = targetSlot
    THEN Equip(index)
    ELSE /\ gameState' = gameState
         /\ lastOp' = Op("drop_noop")
         /\ UNCHANGED appVars

DevAdd(item) ==
  /\ ItemCount(gameState) < MaxItems
  /\ gameState' = handleDevAdd(gameState, item)
  /\ lastOp' = OpOn("devAdd", 0, item, Occupied(gameState))
  /\ UNCHANGED appVars

DevForceEquip(item) ==
  /\ ItemCount(gameState) < MaxItems
  /\ gameState' = handleDevForceEquip(gameState, item)
  /\ lastOp' = OpOn("forceEquip", 0, item, Occupied(gameState))
  /\ UNCHANGED appVars

(***************************************************************************)
(* Inputs of the session: narrative deltas, save slots, picked items       *)
(***************************************************************************)
NoStatChanges == [k \in {} |-> 0]
NoRelChanges == [k \in {} |-> Rel(0, 0, 0)]

\* the "updates" payload the narrative collaborator answers with in a
\* session: stat changes (one out of range, one for an unknown stat), money,
\* a move, a known and an unknown character, item gains
SessionDeltas ==
  { [statChanges |-> [VITALITY |-> -5, BLUSH |-> 120, LUCK |-> 3],
     moneyChange |-> -30, locationChange |-> "cafe_downtown",
     relationshipChanges |-> [NewNPC |-> Rel(5, 0, 150), Mitch |-> Rel(-120, 7, 0)],
     itemGained |-> << "foot_heels_pumps_01", "no_such_item" >>] }

\* what localStorage holds: one slot, saved in an earlier session at the end
\* of a day, wearing the dress
SavedState ==
  [handleEquip(NewGameState(INITIAL_GAME_STATE, FALSE), 9) EXCEPT
     !.time = [day |-> 1, segment |-> "Post-Night", slotsUsed |-> 0],
     !.stats = [@ EXCEPT !["VITALITY"] = 40, !["FATIGUE"] = 30],
     !.history = @ \o << Entry("user", "PLAYER_TEXT"), Entry("model", "NARRATIVE") >>]

SaveSlots == {SavedState}

\* what the player picks in the Items panel during a session: the dress
SessionPicks == {ITEM_DATABASE[9]}

(***************************************************************************)
(* Session actions                                                         *)
(***************************************************************************)
InFlight == pending + orphaned

\* History texts are opaque strings: one token stands for each kind of text,
\* PlayerText for whatever the player submitted (typed, chosen, or the fixed
\* text of "Confirm & Next", with or without the intent prefix).
PlayerText == "PLAYER_TEXT"

\* in-place writes reach INITIAL_GAME_STATE while the live state shares its
\* stats and npcRelationships objects
WriteThrough(gs) ==
  [stats |-> IF sharesInitial.stats THEN gs.stats ELSE initialObj.stats,
   npcRelationships |->
     IF sharesInitial.map
       THEN gs.npcRelationships
       ELSE [n \in DOMAIN initialObj.npcRelationships |->
               IF n \in sharesInitial.rels
                 THEN gs.npcRelationships[n]
                 ELSE initialObj.npcRelationships[n]]]

\* a processTurn that starts the turn whether or not a key is set
processTurn_NoKeyGuard(text, hasKey) ==
  /\ turns < MaxTurns
  /\ turns' = turns + 1
  /\ \E eager \in BOOLEAN :
       stateHistory' = Append(stateHistory, Snapshot(gameState, eager))
  /\ isProcessing' = TRUE
  /\ generatedChoices' = FALSE
  /\ gameState' = TurnStarted(gameState, text)
  /\ initialObj' = WriteThrough(TurnStarted(gameState, text))
  /\ pending' = pending + 1
  /\ lastOp' = Op(IF hasKey THEN "submit" ELSE "noKey")
  /\ UNCHANGED << orphaned, isGeneratingChoices, sharesInitial >>

\* processTurn up to its await; hasKey is what it reads from the settings:
\* settings.apiKey || process.env.API_KEY is non-empty
processTurn(text, hasKey) ==
  /\ turns < MaxTurns
  /\ turns' = turns + 1
  /\ IF ~hasKey
    THEN /\ gameState' = [gameState EXCEPT
               !.history = Append(@, Entry("model", "NO_API_KEY"))]
         /\ lastOp' = Op("noKey")
         /\ UNCHANGED << stateHistory, isProcessing, pending, orphaned,
                         generatedChoices, isGeneratingChoices, initialObj,
                         sharesInitial >>
    ELSE /\ \E eager \in BOOLEAN :
              stateHistory' = Append(stateHistory, Snapshot(gameState, eager))
         /\ isProcessing' = TRUE
         /\ generatedChoices' = FALSE
         /\ gameState' = TurnStarted(gameState, text)
         /\ initialObj' = WriteThrough(TurnStarted(gameState, text))
         /\ pending' = pending + 1
         /\ lastOp' = Op("submit")
         /\ UNCHANGED << orphaned, isGeneratingChoices, sharesInitial >>

\* the Send button and Enter in the input bar, both disabled while busy
handleTextSubmit ==
  /\ ~isProcessing
  /\ \E hasKey \in BOOLEAN : processTurn(PlayerText, hasKey)

\* a click on a generated choice
handleOptionSelect ==
  /\ generatedChoices
  /\ \E hasKey \in BOOLEAN : processTurn(PlayerText, hasKey)

\* "Confirm & Next" of the Items panel
ConfirmAndNext ==
  \E hasKey \in BOOLEAN :
    processTurn(PlayerText, hasKey)

\* one awaited call returns or throws; fromSession tells whether it was
\* submitted in the current session
Settle(fromSession, next) ==
  /\ IF fromSession
       THEN pending > 0 /\ pending' = pending - 1 /\ orphaned' = orphaned
       ELSE orphaned > 0 /\ orphaned' = orphaned - 1 /\ pending' = pending
  /\ gameState' = next
  /\ initialObj' = WriteThrough(next)
  /\ isProcessing' = FALSE
  /\ UNCHANGED << stateHistory, generatedChoices, isGeneratingChoices,
                  sharesInitial, turns >>

\* the response parses: delta applied, narrative appended
ResponseOk(fromSession, updates) ==
  /\ Settle(fromSession, ApplyResponse(gameState, TRUE, updates, "NARRATIVE"))
  /\ lastOp' = Op("response")

\* the response is not JSON: raw text appended, no delta
ResponseMalformed(fromSession) ==
  /\ Settle(fromSession, ApplyResponse(gameState, FALSE, << >>, "RAW_TEXT"))
  /\ lastOp' = Op("malformed")

\* the response is JSON without a "narrative" member: parsed.narrative is
\* undefined and becomes the entry's text; parsed.updates, if the object has
\* it, is applied like any other
ResponseOffSchema(fromSession, hasUpdates, updates) ==
  /\ Settle(fromSession, ApplyResponse(gameState, hasUpdates, updates, "UNDEFINED"))
  /\ lastOp' = Op("offSchema")

\* a failure whose handler leaves the busy flag set
ResponseFailed_KeepsFlag(fromSession) ==
  /\ IF fromSession
       THEN pending > 0 /\ pending' = pending - 1 /\ orphaned' = orphaned
       ELSE orphaned > 0 /\ orphaned' = orphaned - 1 /\ pending' = pending
  /\ gameState' = ApplyFailure(gameState)
  /\ initialObj' = WriteThrough(ApplyFailure(gameState))
  /\ lastOp' = Op("failed")
  /\ UNCHANGED << stateHistory, isProcessing, generatedChoices,
                  isGeneratingChoices, sharesInitial, turns >>

\* the call throws
ResponseFailed(fromSession) ==
  /\ Settle(fromSession, ApplyFailure(gameState))
  /\ lastOp' = Op("failed")

handleUndo ==
  /\ IF Len(stateHistory) = 0 \/ isProcessing
       THEN /\ UNCHANGED << gameState, stateHistory, sharesInitial >>
            /\ lastOp' = Op("undo_noop")
       ELSE /\ gameState' = RestoredState(stateHistory[Len(stateHistory)],
                                          gameState)
            /\ stateHistory' = SubSeq(stateHistory, 1, Len(stateHistory) - 1)
            /\ sharesInitial' = NoSharing
            /\ lastOp' = Op("undo")
  /\ UNCHANGED << isProcessing, pending, orphaned, generatedChoices,
                  isGeneratingChoices, initialObj, turns >>

\* handleNewGameConfig
handleNewGameConfig(tutorial) ==
  /\ gameState' = NewGameState(initialObj, tutorial)
  /\ stateHistory' = << >>
  /\ generatedChoices' = tutorial
  /\ sharesInitial' = NoSharing
  /\ orphaned' = orphaned + pending
  /\ pending' = 0
  /\ lastOp' = Op("newGame")
  /\ UNCHANGED << isProcessing, isGeneratingChoices, initialObj, turns >>

\* the onLoad callback of SaveLoadModule
onLoad(loadedState) ==
  /\ gameState' = loadedState
  /\ sharesInitial' = NoSharing
  /\ orphaned' = orphaned + pending
  /\ pending' = 0
  /\ lastOp' = Op("load")
  /\ UNCHANGED << stateHistory, isProcessing, generatedChoices,
                  isGeneratingChoices, initialObj, turns >>

\* generateChoices up to its await, with a key set (the intent matrix is
\* disabled while busy; without a key it only alerts)
generateChoices ==
  /\ ~isProcessing /\ ~isGeneratingChoices
  /\ isGeneratingChoices' = TRUE
  /\ generatedChoices' = FALSE
  /\ UNCHANGED << gameState, stateHistory, isProcessing, pending, orphaned,
                  initialObj, sharesInitial, turns, lastOp >>

\* the choice call settles: choices, or the four error strings
ChoicesSettled ==
  /\ isGeneratingChoices
  /\ isGeneratingChoices' = FALSE
  /\ generatedChoices' = TRUE
  /\ UNCHANGED << gameState, stateHistory, isProcessing, pending, orphaned,
                  initialObj, sharesInitial, turns, lastOp >>

\* handleDevSlotClick(slotIndex) in dev mode: a click on the slot whose index
\* is slotsUsed advances the time (no rollover of the stats); any other
\* click does nothing
handleDevSlotClick(slotIndex) ==
  /\ gameState.time.day <= MaxDay
  /\ IF slotIndex = gameState.time.slotsUsed
       THEN LET timeResult == advanceTime(gameState.time.segment,
                                          gameState.time.slotsUsed)
            IN  /\ gameState' = [gameState EXCEPT
                      !.time = [day |-> IF timeResult.newDay THEN @.day + 1
                                                             ELSE @.day,
                                segment |-> timeResult.segment,
                                slotsUsed |-> timeResult.slots]]
                /\ lastOp' = Op("devAdvance")
       ELSE UNCHANGED << gameState, lastOp >>
  /\ UNCHANGED appVars

\* updateStat(type, value): a drag on an editable gauge in dev mode; the
\* stats object is replaced by a copy
updateStat(type, value) ==
  /\ gameState' = [gameState EXCEPT !.stats = [@ EXCEPT ![type] = value]]
  /\ sharesInitial' = [sharesInitial EXCEPT !.stats = FALSE]
  /\ lastOp' = Op("updateStat")
  /\ UNCHANGED << stateHistory, isProcessing, pending, orphaned,
                  generatedChoices, isGeneratingChoices, initialObj, turns >>

\* "isFavorite: !rel.isFavorite" on a record that may not have the field
Favorite(rel) ==
  [trust |-> rel.trust, attraction |-> rel.attraction,
   familiarity |-> rel.familiarity,
   isFavorite |-> IF "isFavorite" \in DOMAIN rel THEN ~rel.isFavorite ELSE TRUE]

\* toggleFavorite(npcName): the map and the record of npcName are replaced
\* by copies, the other records stay the objects they were
toggleFavorite(npcName) ==
  /\ IF npcName \in DOMAIN gameState.npcRelationships
       THEN /\ gameState' = [gameState EXCEPT
                  !.npcRelationships = [@ EXCEPT ![npcName] = Favorite(@)]]
            /\ sharesInitial' =
                 [sharesInitial EXCEPT
                    !.map = FALSE,
                    !.rels = (IF sharesInitial.map
                                THEN DOMAIN gameState.npcRelationships
                                ELSE @) \ {npcName}]
       ELSE UNCHANGED << gameState, sharesInitial >>
  /\ lastOp' = Op("toggleFavorite")
  /\ UNCHANGED << stateHistory, isProcessing, pending, orphaned,
                  generatedChoices, isGeneratingChoices, initialObj, turns >>

\* the Items panel in a session
EquipPicked ==
  \E index \in 1..Len(gameState.inventory) :
    /\ gameState.inventory[index] \in SessionPicks
    /\ Equip(index)

Next ==
  \/ handleTextSubmit
  \/ handleOptionSelect
  \/ ConfirmAndNext
  \/ \E b \in BOOLEAN, u \in SessionDeltas : ResponseOk(b, u)
  \/ \E b \in BOOLEAN : ResponseMalformed(b)
  \/ \E b \in BOOLEAN : ResponseFailed(b)
  \/ handleUndo
  \/ \E t \in BOOLEAN : handleNewGameConfig(t)
  \/ \E s \in SaveSlots : onLoad(s)
  \/ generateChoices
  \/ ChoicesSettled
  \/ EquipPicked

Spec == Init /\ [][Next]_vars

(***************************************************************************)
(* The equipment resolver on its own, from the boot inventory: every index *)
(* of the inventory, and one past it                                       *)
(***************************************************************************)
NextEquip ==
  \E index \in 1..(Len(ITEM_DATABASE) + 1) : Equip(index)

SpecEquip == Init /\ [][NextEquip]_vars

(***************************************************************************)
(* The dev surface: items added and force-equipped, the player equipping   *)
(* tops, bottoms and the dress among the duplicates                        *)
(***************************************************************************)
\* the catalog entries picked on the dev surface: a bottom, a top, the dress
DevPicks == {ITEM_DATABASE[3], ITEM_DATABASE[5], ITEM_DATABASE[9]}

\* the types the player equips here
OutfitTypes == {"Top", "Bottom", "FullBody"}

EquipOutfit ==
  \E index \in 1..Len(gameState.inventory) :
    /\ gameState.inventory[index].type \in OutfitTypes
    /\ Equip(index)

NextDev ==
  \/ EquipOutfit
  \/ \E item \in DevPicks : DevAdd(item)
  \/ \E item \in DevPicks : DevForceEquip(item)

SpecDev == Init /\ [][NextDev]_vars

(***************************************************************************)
(* Drag and drop in the Items panel: any index of the boot inventory or one *)
(* past it, dropped on an outfit slot or on the footwear slot; and a click  *)
(* on an index past the end                                                *)
(***************************************************************************)
DropTargets == {"top", "bottom", "fullBody", "footwear"}

EquipPastEnd == Equip(Len(gameState.inventory) + 1)

NextDrop ==
  \/ \E index \in 1..(Len(ITEM_DATABASE) + 1), targetSlot \in DropTargets :
        handleDrop(index, targetSlot)
  \/ EquipPastEnd

SpecDrop == Init /\ [][NextDrop]_vars

(***************************************************************************)
(* The delta of a turn: submitted turns answered with one of several       *)
(* deltas, undo, a load at the end of a day, the dev gauges                *)
(***************************************************************************)
Delta(statChanges, moneyChange, relationshipChanges, itemGained) ==
  [statChanges |-> statChanges, moneyChange |-> moneyChange,
   locationChange |-> "", relationshipChanges |-> relationshipChanges,
   itemGained |-> itemGained]

\* the "updates" payloads answered here: money only; a FINANCE stat change;
\* stat changes past both ends, with an unknown stat, a money gain and item
\* gains, one of them unknown; a known and an unknown character
Deltas ==
  { Delta(NoStatChanges, -30, NoRelChanges, << >>),
    Delta([FINANCE |-> -200], 0, NoRelChanges, << >>),
    Delta([VITALITY |-> -130, BLUSH |-> 120, SOCIAL_CLASS |-> -10, LUCK |-> 3],
          50, NoRelChanges, << "foot_heels_pumps_01", "no_such_item" >>),
    Delta(NoStatChanges, 0,
          [NewNPC |-> Rel(5, 0, 150), Mitch |-> Rel(-120, 7, 0)], << >>) }

\* gauge drags: Social to the left end (v - 50), Vitality to 60
DevStatEdits == { << "SOCIAL_CLASS", -50 >>, << "VITALITY", 60 >> }

NextDelta ==
  \/ handleTextSubmit
  \/ \E u \in Deltas : ResponseOk(TRUE, u)
  \/ handleUndo
  \/ \E s \in SaveSlots : onLoad(s)
  \/ \E e \in DevStatEdits : updateStat(e[1], e[2])

SpecDelta == Init /\ [][NextDelta]_vars

(***************************************************************************)
(* Relationships: turns answered with relationship changes, undo, and the  *)
(* favorite star of a character                                            *)
(***************************************************************************)
\* a known and an unknown character with fields past both ends; one field
\* of one known character
RelDeltas ==
  { Delta(NoStatChanges, 0,
          [NewNPC |-> Rel(5, 0, 150), Mitch |-> Rel(-120, 7, 0)], << >>),
    Delta(NoStatChanges, 0, [Mitch |-> Rel(0, 0, -30)], << >>) }

\* the characters whose star is clicked
FavoritePicks == {"Mitch", "Ashley"}

NextRel ==
  \/ handleTextSubmit
  \/ \E u \in RelDeltas : ResponseOk(TRUE, u)
  \/ handleUndo
  \/ \E n \in FavoritePicks : toggleFavorite(n)

SpecRel == Init /\ [][NextRel]_vars

(***************************************************************************)
(* The clock from boot: dev force-advance around the cycle, and turns      *)
(***************************************************************************)
\* the three event slots rendered, [0, 1, 2]
EventSlots == 0..2

NextClock ==
  \/ \E slotIndex \in EventSlots : handleDevSlotClick(slotIndex)
  \/ handleTextSubmit
  \/ ResponseFailed(TRUE)

SpecClock == Init /\ [][NextClock]_vars

(***************************************************************************)
(* advanceTime on every input: the state starts at any segment with any    *)
(* slotsUsed up to MaxSlots; the dev force-advance and a submitted turn     *)
(* apply the function                                                      *)
(***************************************************************************)
InitAdvance ==
  /\ \E seg \in {TimeSegment[i] : i \in 1..Len(TimeSegment)},
         slotsUsed \in 0..MaxSlots :
        gameState = [INITIAL_GAME_STATE EXCEPT
                       !.time = [day |-> 0, segment |-> seg,
                                 slotsUsed |-> slotsUsed]]
  /\ stateHistory = << >>
  /\ isProcessing = FALSE
  /\ pending = 0
  /\ orphaned = 0
  /\ generatedChoices = FALSE
  /\ isGeneratingChoices = FALSE
  /\ initialObj = [stats |-> INITIAL_STATS, npcRelationships |-> initRelationships]
  /\ sharesInitial = AllShared
  /\ turns = 0
  /\ lastOp = Op("boot")

NextAdvance ==
  \/ \E slotIndex \in EventSlots : handleDevSlotClick(slotIndex)
  \/ handleTextSubmit

SpecAdvance == InitAdvance /\ [][NextAdvance]_vars

(***************************************************************************)
(* The outcomes of the narrative call: a response of the schema, text that *)
(* is not JSON, JSON that is not of the schema, a failure                  *)
(***************************************************************************)
\* the updates of the responses: the session's, with a move; one with no
\* move; one that only moves, to a place the game does not have
ResponseDeltas ==
  SessionDeltas \cup
    { Delta(NoStatChanges, -30, NoRelChanges, << >>),
      [Delta(NoStatChanges, 0, NoRelChanges, << >>) EXCEPT
         !.locationChange = "not_a_location"] }

NextResponse ==
  \/ handleTextSubmit
  \/ \E u \in ResponseDeltas : ResponseOk(TRUE, u)
  \/ ResponseMalformed(TRUE)
  \/ \E hasUpdates \in BOOLEAN, u \in ResponseDeltas :
       ResponseOffSchema(TRUE, hasUpdates, u)
  \/ ResponseFailed(TRUE)
  \/ handleUndo
  \/ EquipPicked

SpecResponse == Init /\ [][NextResponse]_vars

(***************************************************************************)
(* Turns with a collaborator that answers: every awaited call returns or   *)
(* throws in the end                                                       *)
(***************************************************************************)
\* some awaited call settles, with any of its outcomes
CallSettles ==
  \E b \in BOOLEAN :
    \/ \E u \in SessionDeltas : ResponseOk(b, u)
    \/ ResponseMalformed(b)
    \/ ResponseFailed(b)

NextLive ==
  \/ handleTextSubmit
  \/ ConfirmAndNext
  \/ CallSettles
  \/ handleUndo
  \/ \E t \in BOOLEAN : handleNewGameConfig(t)

SpecLive == Init /\ [][NextLive]_vars /\ WF_vars(CallSettles)

(***************************************************************************)
(* calculateStats on its own: base tables and outfits of the catalog, and  *)
(* an accessory with a modifier for a stat the table does not have         *)
(***************************************************************************)
\* the base tables given to calculateStats
BaseTables ==
  { INITIAL_STATS,
    [INITIAL_STATS EXCEPT !["SOCIAL_CLASS"] = 95, !["UTILITY"] = 0] }

Charm ==
  [id |-> "acc_charm_01", type |-> "Accessory",
   stats |-> [LUCK |-> 7, SOCIAL_CLASS |-> 20]]

\* the catalog items worn here: pumps, yoga pants, blouse, sundress
WornPicks ==
  {ITEM_DATABASE[2], ITEM_DATABASE[3], ITEM_DATABASE[5], ITEM_DATABASE[9]}

InitStats ==
  /\ gameState \in {[INITIAL_GAME_STATE EXCEPT !.stats = t] : t \in BaseTables}
  /\ stateHistory = << >>
  /\ isProcessing = FALSE
  /\ pending = 0
  /\ orphaned = 0
  /\ generatedChoices = FALSE
  /\ isGeneratingChoices = FALSE
  /\ initialObj = [stats |-> INITIAL_STATS, npcRelationships |-> initRelationships]
  /\ sharesInitial = NoSharing
  /\ turns = 0
  /\ lastOp = Op("boot")

WearPicked ==
  \E index \in 1..Len(gameState.inventory) :
    /\ gameState.inventory[index] \in WornPicks
    /\ Equip(index)

\* one call of calculateStats on the state; lastOp holds what it returned
Calculate ==
  /\ lastOp' = [op |-> "calculateStats", index |-> 0, item |-> Null, was |-> {},
                result |-> calculateStats(gameState.stats, gameState.equipped)]
  /\ UNCHANGED << gameState, appVars >>

NextStats ==
  \/ WearPicked
  \/ DevForceEquip(Charm)
  \/ Calculate

SpecStats == InitStats /\ [][NextStats]_vars

(***************************************************************************)
(* The clock over whole days: turns and forced advances, with the          *)
(* operations that replace the state                                       *)
(***************************************************************************)
NextCycle ==
  \/ \E slotIndex \in EventSlots : handleDevSlotClick(slotIndex)
  \/ handleTextSubmit
  \/ handleUndo
  \/ \E s \in SaveSlots : onLoad(s)
  \/ \E t \in BOOLEAN : handleNewGameConfig(t)

SpecCycle == Init /\ [][NextCycle]_vars

(***************************************************************************)
(* Outfit changes between turns: the Items panel and the dev catalog, with *)
(* turns and undo                                                          *)
(***************************************************************************)
\* what is added or forced on from the dev catalog here: the blouse
OutfitDevPicks == {ITEM_DATABASE[5]}

NextOutfit ==
  \/ handleTextSubmit
  \/ \E u \in SessionDeltas : ResponseOk(TRUE, u)
  \/ handleUndo
  \/ EquipPicked
  \/ \E item \in OutfitDevPicks : DevAdd(item)
  \/ \E item \in OutfitDevPicks : DevForceEquip(item)

SpecOutfit == Init /\ [][NextOutfit]_vars

(***************************************************************************)
(* Properties                                                              *)
(***************************************************************************)
\* the fields of a GameState other than history
OtherFields ==
  {"stats", "inventory", "equipped", "time", "location", "npcRelationships",
   "config"}

\* C1: at most one turn is in flight at any time: no processTurn call starts
\* its snapshot push, time advance and external call while the response of
\* an earlier one is still awaited.
C1_AtMostOneTurnInFlight == InFlight <= 1

\* C2: an undo that restores gives every field but history the value it has
\* in the snapshot S on top of the stack; the history becomes S.history
\* followed, in order, by the entries the current history holds beyond
\* |S.history|, each with retracted = true; the stack loses exactly its top.
C2_Restored(S, cur, new, stack, newStack) ==
  /\ \A f \in OtherFields : new[f] = S[f]
  /\ Len(new.history) = Max(Len(S.history), Len(cur.history))
  /\ \A i \in 1..Len(S.history) : new.history[i] = S.history[i]
  /\ \A i \in (Len(S.history) + 1)..Len(cur.history) :
        /\ new.history[i].role = cur.history[i].role
        /\ new.history[i].text = cur.history[i].text
        /\ new.history[i].retracted = TRUE
  /\ Len(newStack) = Len(stack) - 1
  /\ \A i \in 1..Len(newStack) : newStack[i] = stack[i]

C2_UndoRestoresSnapshot ==
  [][(handleUndo /\ Len(stateHistory) > 0 /\ ~isProcessing)
       => C2_Restored(stateHistory[Len(stateHistory)], gameState, gameState',
                      stateHistory, stateHistory')]_vars

\* an undo has just taken back a completed turn: its narrative entry is the
\* last of the history, retracted, and the time is the snapshot's again
C2_Witness ==
  /\ lastOp.op = "undo"
  /\ Len(gameState.history) >= 3
  /\ gameState.history[Len(gameState.history)].role = "model"
  /\ gameState.history[Len(gameState.history)].retracted
  /\ gameState.history[Len(gameState.history) - 1].role = "user"
  /\ gameState.history[Len(gameState.history) - 1].retracted
  /\ ~gameState.history[1].retracted

\* C3: undo is a no-op (game state and undo stack both unchanged) whenever
\* the stack is empty or the response of any turn is still awaited: it never
\* restores a snapshot while some turn's response has not been applied.
C3_UndoNoOpWhenEmptyOrMidTurn ==
  [][(handleUndo /\ (Len(stateHistory) = 0 \/ InFlight > 0))
       => UNCHANGED << gameState, stateHistory >>]_vars

\* C4: between new-game and load events the history is append-only: its
\* length never decreases, the role and text at a position never change, and
\* a retracted flag that is set stays set.
AppendOnly(h, hNew) ==
  /\ Len(hNew) >= Len(h)
  /\ \A i \in 1..Len(h) :
        /\ hNew[i].role = h[i].role
        /\ hNew[i].text = h[i].text
        /\ h[i].retracted => hNew[i].retracted

C4_HistoryAppendOnly ==
  [][lastOp'.op \notin {"newGame", "load"}
       => AppendOnly(gameState.history, gameState'.history)]_vars

\* C5: right after new game and right after load the undo stack is empty.
C5_StackEmptyAfterNewGameOrLoad ==
  lastOp.op \in {"newGame", "load"} => Len(stateHistory) = 0

\* C6: fullBody is never occupied at the same time as top or bottom.
C6_FullBodyExclusive ==
  gameState.equipped.fullBody # Null =>
    gameState.equipped.top = Null /\ gameState.equipped.bottom = Null

\* C7: after equip or forceEquip of a top or bottom while a fullBody item
\* was equipped, the fullBody slot is empty.
C7_TopOrBottomVacatesFullBody ==
  ( /\ lastOp.op \in {"equip", "forceEquip"}
    /\ lastOp.item.type \in {"Top", "Bottom"}
    /\ "fullBody" \in lastOp.was )
  => gameState.equipped.fullBody = Null

\* occurrences of item x in a sequence, and in inventory plus slots
Occurrences(seq, x) == Cardinality({i \in 1..Len(seq) : seq[i] = x})
Count(st, x) ==
  Occurrences(st.inventory, x) + Cardinality({k \in SlotKeys : st.equipped[k] = x})
ItemsOf(st) ==
  ({st.inventory[i] : i \in 1..Len(st.inventory)}
     \cup {st.equipped[k] : k \in SlotKeys}) \ {Null}

\* C8: equip of a fullBody item B leaves top and bottom empty and fullBody = B,
\* and each item that was in top or bottom is once more in the inventory.
C8_Post(old, new, B) ==
  /\ new.equipped.top = Null
  /\ new.equipped.bottom = Null
  /\ new.equipped.fullBody = B
  /\ \A k \in {"top", "bottom"} :
        old.equipped[k] # Null =>
          Occurrences(new.inventory, old.equipped[k])
            = Occurrences(old.inventory, old.equipped[k]) + 1

C8_FullBodyVacatesTopAndBottom ==
  [][\A index \in 1..Len(gameState.inventory) :
       (Equip(index) /\ gameState.inventory[index].type = "FullBody")
         => C8_Post(gameState, gameState', gameState.inventory[index])]_vars

\* the dress has just been equipped over a top and a bottom
C8_Witness ==
  /\ lastOp.op = "equip"
  /\ lastOp.item.type = "FullBody"
  /\ {"top", "bottom"} \subseteq lastOp.was
  /\ gameState.equipped.fullBody = lastOp.item
  /\ gameState.equipped.top = Null

\* C9: equip at a valid index keeps the multiset of items over inventory and
\* occupied slots, hence |inventory| + |occupied slots|.
C9_EquipConservesItems ==
  [][\A index \in 1..Len(gameState.inventory) :
       Equip(index) =>
         /\ \A x \in ItemsOf(gameState) \cup ItemsOf(gameState') :
               Count(gameState', x) = Count(gameState, x)
         /\ ItemCount(gameState') = ItemCount(gameState)]_vars

\* an equip has just displaced the occupant of its slot
C9_Witness ==
  /\ lastOp.op = "equip"
  /\ getSlotFromType(lastOp.item.type) \in lastOp.was
  /\ gameState.inventory[Len(gameState.inventory)].type = lastOp.item.type
  /\ ItemCount(gameState) = Len(ITEM_DATABASE)

\* C10: after equip(i) of x = inventory[i] with slot s: equipped[s] = x, the
\* former occupant of s is in the inventory, the inventory is the old one
\* without position i, in the same order, followed by displaced items only.
C10_Post(old, new, i) ==
  LET x == old.inventory[i]
      s == getSlotFromType(x.type)
      n == Len(old.inventory)
  IN  /\ new.equipped[s] = x
      /\ old.equipped[s] # Null =>
            \E j \in n..Len(new.inventory) : new.inventory[j] = old.equipped[s]
      /\ Len(new.inventory) >= n - 1
      /\ \A k \in 1..(i - 1) : new.inventory[k] = old.inventory[k]
      /\ \A k \in i..(n - 1) : new.inventory[k] = old.inventory[k + 1]
      /\ \A j \in n..Len(new.inventory) :
            \E k \in SlotKeys : /\ old.equipped[k] = new.inventory[j]
                                 /\ (k = s \/ new.equipped[k] = Null)

C10_EquipSwapsByIndex ==
  [][\A index \in 1..Len(gameState.inventory) :
       Equip(index) => C10_Post(gameState, gameState', index)]_vars

\* an equip has just taken one of two copies of an item out of the inventory,
\* the later one, and displaced the occupant of the slot
C10_Witness ==
  /\ lastOp.op = "equip"
  /\ getSlotFromType(lastOp.item.type) \in lastOp.was
  /\ \E j \in 1..Len(gameState.inventory) :
        j < lastOp.index /\ gameState.inventory[j] = lastOp.item

\* C11: an equip, by click or by drop, with an index that names no item of
\* the current inventory changes nothing: inventory, equipped and every
\* other field of the game state (and of the session) stay as they are.
C11_EquipMissingIndexNoOp ==
  [][\A index \in 1..(Len(ITEM_DATABASE) + 1) :
       (/\ index \notin 1..Len(gameState.inventory)
        /\ Equip(index) \/ \E targetSlot \in DropTargets : handleDrop(index, targetSlot))
         => UNCHANGED << gameState, appVars >>]_vars

\* an equip has just been asked for an index past the end of an inventory
\* that some item has already left
C11_Witness ==
  /\ lastOp.op = "equip_noop"
  /\ lastOp.index > Len(gameState.inventory)
  /\ lastOp.was # {}

\* the segments with no slots, and the five normal ones
ZeroSlotSegments == {"Pre-Dawn", "Post-Night"}
NormalSegments == {"Dawn", "Morning", "Day", "Evening", "Night"}

\* the segment after seg in the cycle
Successor(seg) == TimeSegment[(IndexOf(seg) % Len(TimeSegment)) + 1]

C13_NewDayIffPostNight ==
  LET r == advanceTime(gameState.time.segment, gameState.time.slotsUsed)
  IN  gameState.time.slotsUsed \in 0..2 =>
        /\ r.newDay <=> gameState.time.segment = "Post-Night"
        /\ r.newDay => r.segment = "Pre-Dawn"

\* an advance from Post-Night has just started a new day
C13_Witness ==
  /\ lastOp.op = "devAdvance"
  /\ gameState.time.segment = "Pre-Dawn"
  /\ gameState.time.day = 1

\* C14: advanceTime follows the cycle without skipping: a zero-slot segment
\* moves to its successor with slots 0 whatever slotsUsed is (Pre-Dawn, 0
\* gives Dawn, 0, newDay false); a normal segment with slotsUsed < 2 keeps the
\* segment and returns slotsUsed + 1; a normal segment with slotsUsed >= 2
\* moves to its successor with slots 0.
C14_FixedCycle ==
  LET seg == gameState.time.segment
      k == gameState.time.slotsUsed
      r == advanceTime(seg, k)
  IN  /\ seg \in ZeroSlotSegments => r.segment = Successor(seg) /\ r.slots = 0
      /\ (seg = "Pre-Dawn" /\ k = 0) =>
            r = [segment |-> "Dawn", slots |-> 0, newDay |-> FALSE]
      /\ (seg \in NormalSegments /\ k < 2) => r.segment = seg /\ r.slots = k + 1
      /\ (seg \in NormalSegments /\ k >= 2) =>
            r.segment = Successor(seg) /\ r.slots = 0

\* the advance has gone once round the whole cycle, back to where a run
\* that began in the last slot of Night started
C14_Witness ==
  /\ lastOp.op = "devAdvance"
  /\ gameState.time.segment = "Night"
  /\ gameState.time.slotsUsed = 2
  /\ gameState.time.day = 1

\* v brought into [0, 100]
Bounded(v) == IF v < 0 THEN 0 ELSE IF v > 100 THEN 100 ELSE v

\* C15: after every application of a delta by the turn pipeline, every stat
\* other than FINANCE and SOCIAL_CLASS lies in [0, 100], whatever the delta
\* names, also after a day rollover, an undo, a load or a gauge drag.
C15_StatsInRangeAfterDelta ==
  lastOp.op = "response" =>
    \A k \in StatType \ {"FINANCE", "SOCIAL_CLASS"} :
      gameState.stats[k] \in 0..100

\* a delta past both ends has been applied on the day after a rollover
C15_Witness ==
  /\ lastOp.op = "response"
  /\ gameState.time.day = 2
  /\ gameState.stats["VITALITY"] = 0
  /\ gameState.stats["BLUSH"] = 100

\* C16: the stat-change path sets every stat the delta names and the table
\* has to max(0, min(100, old + change)), FINANCE and SOCIAL_CLASS included
\* (the money change is added to FINANCE after it); keys the table does not
\* have are ignored, the set of stat keys never changes, and the stats the
\* delta does not name keep their values.
C16_Post(old, new, u) ==
  /\ DOMAIN new = DOMAIN old
  /\ \A k \in DOMAIN old :
        new[k] - (IF k = "FINANCE" THEN u.moneyChange ELSE 0)
          = IF k \in DOMAIN u.statChanges
              THEN Bounded(old[k] + u.statChanges[k])
              ELSE old[k]

C16_StatChangesClamped ==
  [][\A u \in Deltas :
       ResponseOk(TRUE, u) => C16_Post(gameState.stats, gameState'.stats, u)]_vars

\* a delta naming an unknown stat has brought SOCIAL_CLASS from -50 to 0
C16_Witness ==
  /\ lastOp.op = "response"
  /\ Len(stateHistory) > 0
  /\ stateHistory[Len(stateHistory)].stats["SOCIAL_CLASS"] = -50
  /\ gameState.stats["SOCIAL_CLASS"] = 0
  /\ gameState.stats["BLUSH"] = 100

\* C17: the money change is added to FINANCE with no clamp, so FINANCE may
\* pass 100 or go below 0, while a FINANCE entry of statChanges is clamped
\* to [0, 100]: from 100, moneyChange -30 gives 70, then a FINANCE stat
\* change of -200 gives 0.
C17_Post(old, new, u) ==
  /\ "FINANCE" \notin DOMAIN u.statChanges =>
        new["FINANCE"] = old["FINANCE"] + u.moneyChange
  /\ ("FINANCE" \in DOMAIN u.statChanges /\ u.moneyChange = 0) =>
        /\ new["FINANCE"] \in 0..100
        /\ new["FINANCE"] = Bounded(old["FINANCE"] + u.statChanges["FINANCE"])
  /\ (old["FINANCE"] = 100 /\ "FINANCE" \notin DOMAIN u.statChanges
        /\ u.moneyChange = -30) => new["FINANCE"] = 70
  /\ (old["FINANCE"] = 70 /\ "FINANCE" \in DOMAIN u.statChanges
        /\ u.moneyChange = 0 /\ u.statChanges["FINANCE"] = -200) =>
        new["FINANCE"] = 0

C17_MoneyUnclampedFinanceClamped ==
  [][\A u \in Deltas :
       ResponseOk(TRUE, u) => C17_Post(gameState.stats, gameState'.stats, u)]_vars

\* the scenario: 100 at the first submission, 70 at the second, 0 now
C17_Witness ==
  /\ lastOp.op = "response"
  /\ Len(stateHistory) = 2
  /\ stateHistory[1].stats["FINANCE"] = 100
  /\ stateHistory[2].stats["FINANCE"] = 70
  /\ gameState.stats["FINANCE"] = 0

\* the record a character not met yet starts from
ZeroRel == [trust |-> 0, attraction |-> 0, familiarity |-> 0]

\* C18: for each character of a delta's relationship changes, a record of
\* zeros is created first if there is none; then each sub-field the change
\* carries becomes clamp(old + change, 0, 100), each sub-field it does not
\* carry, and isFavorite, keeps its value; the other characters are
\* unchanged.
C18_Post(old, new, changes) ==
  /\ DOMAIN new = (DOMAIN old) \cup (DOMAIN changes)
  /\ \A n \in DOMAIN new :
        IF n \in DOMAIN changes
          THEN LET base == IF n \in DOMAIN old THEN old[n] ELSE ZeroRel
               IN  /\ DOMAIN new[n] = DOMAIN base
                   /\ \A f \in {"trust", "attraction", "familiarity"} :
                         new[n][f] = IF changes[n][f] # 0
                                       THEN Bounded(base[f] + changes[n][f])
                                       ELSE base[f]
                   /\ "isFavorite" \in DOMAIN base =>
                         new[n].isFavorite = base.isFavorite
          ELSE new[n] = old[n]

C18_RelationshipChanges ==
  [][\A u \in RelDeltas :
       ResponseOk(TRUE, u) =>
         C18_Post(gameState.npcRelationships, gameState'.npcRelationships,
                  u.relationshipChanges)]_vars

\* a delta has discovered a character and moved a favorite's fields past
\* both ends
C18_Witness ==
  /\ lastOp.op = "response"
  /\ "NewNPC" \in DOMAIN gameState.npcRelationships
  /\ gameState.npcRelationships["NewNPC"] = Rel(5, 0, 100)
  /\ "isFavorite" \in DOMAIN gameState.npcRelationships["Mitch"]
  /\ gameState.npcRelationships["Mitch"].isFavorite
  /\ gameState.npcRelationships["Mitch"].trust = 0
  /\ gameState.npcRelationships["Mitch"].attraction = 7

\* the catalog entries the identifiers of ids resolve to, in order
RECURSIVE Resolved(_)
Resolved(ids) ==
  IF ids = << >> THEN << >>
  ELSE LET hits == {i \in 1..Len(ITEM_DATABASE) : ITEM_DATABASE[i].id = Head(ids)}
       IN  (IF hits = {} THEN << >>
            ELSE << ITEM_DATABASE[CHOOSE i \in hits : TRUE] >>)
             \o Resolved(Tail(ids))

\* C19: when a delta carries item-gain identifiers, every identifier that
\* resolves in the catalog is appended to the inventory by the pipeline (the
\* inventory grows by the number of resolvable identifiers); identifiers
\* that do not resolve are skipped.
C19_ItemGainsAppended ==
  [][\A u \in Deltas :
       ResponseOk(TRUE, u) =>
         gameState'.inventory = gameState.inventory \o Resolved(u.itemGained)]_vars

\* the state a submitted turn leaves while its call is awaited
C20_Pending ==
  /\ isProcessing
  /\ pending >= 1
  /\ Len(stateHistory) >= 1
  /\ gameState.history[Len(gameState.history)] = Entry("user", PlayerText)

\* C20: while the external call of a turn is pending, steps 1-4 are in
\* effect: the stack holds one more snapshot than before the submission,
\* the time has moved by exactly one advance step (the day incremented iff
\* newDay), the player's action is the last history entry and no narrative
\* entry of the turn exists yet.
C20_Steps1to4(old, new, stack, newStack) ==
  LET r == advanceTime(old.time.segment, old.time.slotsUsed)
  IN  /\ Len(newStack) = Len(stack) + 1
      /\ SubSeq(newStack, 1, Len(stack)) = stack
      /\ new.time.segment = r.segment
      /\ new.time.slotsUsed = r.slots
      /\ new.time.day = old.time.day + (IF r.newDay THEN 1 ELSE 0)
      /\ new.history = Append(old.history, Entry("user", PlayerText))

C20_StepsInEffectWhilePending ==
  [][/\ processTurn(PlayerText, TRUE) =>
          /\ C20_Steps1to4(gameState, gameState', stateHistory, stateHistory')
          /\ pending' = pending + 1
     /\ lastOp'.op = "submit" => C20_Pending']_vars

\* a turn submitted at the end of a day is awaited: the new day has begun
C20_Witness ==
  /\ lastOp.op = "submit"
  /\ pending = 1
  /\ gameState.time.segment = "Pre-Dawn"
  /\ gameState.time.day = 2
  /\ gameState.history[Len(gameState.history)].role = "user"

\* C21: if the external call fails, steps 1-4 are not rolled back (the
\* snapshot stays on the stack, the time stays advanced, the player's action
\* stays in the history), exactly one failure notice is appended to the
\* history, no delta is applied, and the busy flag is released, so that an
\* undo that follows restores the snapshot.
C21_FailureKeepsSteps ==
  [][/\ \A b \in BOOLEAN :
          ResponseFailed(b) =>
            /\ stateHistory' = stateHistory
            /\ \A f \in OtherFields : gameState'[f] = gameState[f]
            /\ gameState'.history =
                 Append(gameState.history, Entry("model", "ERROR_CONNECTING"))
            /\ ~isProcessing'
     /\ (handleUndo /\ lastOp.op = "failed" /\ Len(stateHistory) > 0) =>
          /\ lastOp'.op = "undo"
          /\ Len(stateHistory') = Len(stateHistory) - 1]_vars

\* the call of a turn has failed: its snapshot is on the stack, the time is
\* past the snapshot's, the player's action and one notice end the history
C21_Witness ==
  /\ lastOp.op = "failed"
  /\ ~isProcessing
  /\ InFlight = 0
  /\ Len(stateHistory) = 1
  /\ stateHistory[1].time # gameState.time
  /\ Len(gameState.history) = Len(stateHistory[1].history) + 2
  /\ gameState.history[Len(gameState.history) - 1] = Entry("user", PlayerText)
  /\ gameState.history[Len(gameState.history)] = Entry("model", "ERROR_CONNECTING")

\* C22: if the response does not parse as the expected schema, the raw
\* response text is appended to the history as the narrative entry of the
\* turn and no delta is applied: stats, location, relationships, inventory,
\* equipped and time are the same after step 5 as just before it.
C22_OffSchemaAppendsRawTextOnly ==
  [][(\/ ResponseMalformed(TRUE)
      \/ \E hasUpdates \in BOOLEAN, u \in ResponseDeltas :
           ResponseOffSchema(TRUE, hasUpdates, u))
       => /\ \A f \in OtherFields : gameState'[f] = gameState[f]
          /\ gameState'.history =
               Append(gameState.history, Entry("model", "RAW_TEXT"))]_vars

\* C23: every turn that takes the busy flag appends exactly two history
\* entries: the player's action at submission and, at completion, exactly
\* one model entry (the narrative or a failure notice). The narrative entry
\* is added by the state update that applies the delta, so no state has the
\* narrative without its delta; a completion that adds another text applies
\* no delta.
C23_TwoEntriesPerTurn ==
  [][/\ InFlight' = InFlight + 1 =>
          /\ isProcessing'
          /\ gameState'.history =
               Append(gameState.history, Entry("user", PlayerText))
     /\ InFlight' = InFlight - 1 =>
          LET added == gameState'.history[Len(gameState'.history)]
          IN  /\ gameState'.history = Append(gameState.history, added)
              /\ added.role = "model"
              /\ ~added.retracted
              /\ IF added.text = "NARRATIVE"
                   THEN \E u \in SessionDeltas :
                          \A f \in OtherFields :
                            gameState'[f] = ApplyUpdates(gameState, u)[f]
                   ELSE \A f \in OtherFields : gameState'[f] = gameState[f]
     /\ InFlight' \in {InFlight - 1, InFlight, InFlight + 1}]_vars

\* a turn has completed with its narrative: the player's action and the
\* narrative are the two entries the history has gained since the snapshot,
\* and the delta is in the state
C23_Witness ==
  /\ lastOp.op = "response"
  /\ InFlight = 0
  /\ Len(stateHistory) = 1
  /\ Len(gameState.history) = Len(stateHistory[1].history) + 2
  /\ gameState.history[Len(gameState.history) - 1] = Entry("user", PlayerText)
  /\ gameState.history[Len(gameState.history)] = Entry("model", "NARRATIVE")
  /\ gameState.location = "cafe_downtown"
  /\ stateHistory[1].location = "home_lily_bedroom"

\* C24: every started turn completes in the end with the busy flag
\* released, provided the external call returns or fails in the end: the
\* flag is never left set forever, whether the call succeeds, answers
\* with a malformed response or fails.
C24_BusyFlagReleased == isProcessing ~> ~isProcessing

\* a turn that ended in a failure has left the flag released
C24_Witness ==
  /\ lastOp.op = "failed"
  /\ turns >= 1
  /\ InFlight = 0
  /\ ~isProcessing

\* C25: on a turn whose time advance yields newDay, VITALITY becomes
\* min(100, VITALITY + 50) and FATIGUE becomes 0 in the update that appends
\* the player's action; on a turn without newDay steps 1-4 change no stat.
C25_Post(old, new, newDay) ==
  IF newDay
    THEN /\ DOMAIN new = DOMAIN old
         /\ new["VITALITY"] = IF old["VITALITY"] + 50 > 100
                                THEN 100 ELSE old["VITALITY"] + 50
         /\ new["FATIGUE"] = 0
         /\ \A k \in DOMAIN old \ {"VITALITY", "FATIGUE"} : new[k] = old[k]
    ELSE new = old

C25_RolloverOnNewDay ==
  [][processTurn(PlayerText, TRUE) =>
       /\ C25_Post(gameState.stats, gameState'.stats,
                   gameState.time.segment = "Post-Night")
       /\ gameState'.history[Len(gameState'.history)] = Entry("user", PlayerText)]_vars

\* a turn submitted at Post-Night with VITALITY 40 and FATIGUE 30: the new
\* day has begun with 90 and 0, the snapshot still has the old values
C25_Witness ==
  /\ lastOp.op = "submit"
  /\ gameState.time.day = 2
  /\ gameState.time.segment = "Pre-Dawn"
  /\ gameState.stats["VITALITY"] = 90
  /\ gameState.stats["FATIGUE"] = 0
  /\ stateHistory[Len(stateHistory)].stats["VITALITY"] = 40
  /\ stateHistory[Len(stateHistory)].stats["FATIGUE"] = 30

\* C26: applying a delta touches only what the delta names: a location
\* change that is present replaces the location with exactly the string
\* given (no validation), an absent one leaves the location unchanged;
\* stats and relationships the delta does not name stay as they are; and
\* step 5, whatever its outcome, never changes time, equipped or the undo
\* stack.
C26_DeltaTouchesOnlyNamed ==
  [][/\ \A u \in ResponseDeltas :
          ResponseOk(TRUE, u) =>
            /\ gameState'.location = IF u.locationChange # ""
                                       THEN u.locationChange
                                       ELSE gameState.location
            /\ (u.statChanges = NoStatChanges /\ u.moneyChange = 0) =>
                  gameState'.stats = gameState.stats
            /\ u.relationshipChanges = NoRelChanges =>
                  gameState'.npcRelationships = gameState.npcRelationships
            /\ gameState'.config = gameState.config
     /\ InFlight' = InFlight - 1 =>
          /\ gameState'.time = gameState.time
          /\ gameState'.equipped = gameState.equipped
          /\ stateHistory' = stateHistory]_vars

\* a delta that only moves has been applied while the dress is worn: the
\* location is its string, the stats are the snapshot's
C26_Witness ==
  /\ lastOp.op = "response"
  /\ gameState.location = "not_a_location"
  /\ gameState.equipped["fullBody"] # Null
  /\ Len(stateHistory) = 1
  /\ gameState.stats = stateHistory[1].stats
  /\ gameState.time # stateHistory[1].time

\* the sum of the modifiers the items in the slots S have for stat k
RECURSIVE ModifierSum(_, _, _)
ModifierSum(k, equipped, S) ==
  IF S = {} THEN 0
  ELSE LET s == CHOOSE x \in S : TRUE
           item == equipped[s]
       IN  (IF item # Null /\ k \in DOMAIN item.stats THEN item.stats[k] ELSE 0)
             + ModifierSum(k, equipped, S \ {s})

\* C27: calculateStats returns, for every stat key of the base table, the
\* base value plus the sum of that stat's modifiers over all items in
\* non-empty equipment slots, with no clamping (results may be negative or
\* above 100); modifier keys the base table does not have are ignored, and
\* the base table passed in is not modified.
C27_EffectiveStatsAreSums ==
  [][lastOp'.op = "calculateStats" =>
       /\ DOMAIN lastOp'.result = DOMAIN gameState.stats
       /\ \A k \in DOMAIN gameState.stats :
             lastOp'.result[k] =
               gameState.stats[k] + ModifierSum(k, gameState.equipped, SlotKeys)
       /\ gameState' = gameState]_vars

\* a result below 0 and one above 100, with the charm's unknown stat left out
C27_Witness ==
  /\ lastOp.op = "calculateStats"
  /\ gameState.equipped["accessory"] = Charm
  /\ gameState.equipped["footwear"] = ITEM_DATABASE[2]
  /\ gameState.equipped["top"] = ITEM_DATABASE[5]
  /\ lastOp.result["UTILITY"] = -13
  /\ lastOp.result["SOCIAL_CLASS"] = 140
  /\ "LUCK" \notin DOMAIN lastOp.result
  /\ gameState.stats["SOCIAL_CLASS"] = 95

\* C28: new game, for every configuration, produces the fixed initial
\* snapshot: base stats, all seven equipment slots empty, time = day 0 /
\* Pre-Dawn / slotsUsed 0, the starter inventory, and a relationship record
\* with zero trust, attraction and familiarity for every known character.
C28_NewGameFixedSnapshot ==
  [][\A t \in BOOLEAN :
       handleNewGameConfig(t) =>
         /\ gameState'.stats = INITIAL_STATS
         /\ \A k \in SlotKeys : gameState'.equipped[k] = Null
         /\ gameState'.time = [day |-> 0, segment |-> "Pre-Dawn", slotsUsed |-> 0]
         /\ gameState'.inventory = ITEM_DATABASE
         /\ DOMAIN gameState'.npcRelationships = NPC_NAMES
         /\ \A n \in NPC_NAMES : gameState'.npcRelationships[n] = Rel(0, 0, 0)]_vars

\* C29: every snapshot on the undo stack equals the live state at the
\* instant its turn was submitted, that is before the turn's time advance,
\* day-rollover stat changes and history append, and no later operation
\* changes a snapshot that is still on the stack.
C29_SnapshotIsStateAtSubmission ==
  [][/\ processTurn(PlayerText, TRUE) =>
          /\ Len(stateHistory') = Len(stateHistory) + 1
          /\ stateHistory'[Len(stateHistory')] = gameState
     /\ \A i \in 1..Min(Len(stateHistory), Len(stateHistory')) :
          stateHistory'[i] = stateHistory[i]]_vars

\* C30: the fail-safe branch of the advance (successor index past the end of
\* the enumeration, returning Pre-Dawn with newDay = true) is unreachable:
\* for every segment of the 7-value enumeration and every slotsUsed the
\* advance returns through one of the other branches.
C30_FailSafeUnreachable ==
  /\ Len(TimeSegment) = 7
  /\ advanceBranch(gameState.time.segment, gameState.time.slotsUsed) # "failSafe"

\* an advance from Night, the last segment with a successor index inside
\* the enumeration, has reached the last segment, from which the next
\* advance leaves through the Post-Night case
C30_Witness ==
  /\ lastOp.op = "devAdvance"
  /\ gameState.time.segment = TimeSegment[Len(TimeSegment)]
  /\ gameState.time.slotsUsed = 0
  /\ advanceBranch(gameState.time.segment, gameState.time.slotsUsed) = "postNight"

\* C31: in every state reachable from a new game through turns, failed
\* turns, undos and equips, the trust, attraction and familiarity of every
\* relationship record lie in [0, 100].
C31_RelationshipsInRange ==
  gameState.config.present =>
    \A n \in DOMAIN gameState.npcRelationships :
      \A f \in {"trust", "attraction", "familiarity"} :
        gameState.npcRelationships[n][f] \in 0..100

\* in a new game a delta has pushed a discovered character's familiarity to
\* the ceiling and a known character's trust to the floor
C31_Witness ==
  /\ gameState.config.present
  /\ lastOp.op = "response"
  /\ "NewNPC" \in DOMAIN gameState.npcRelationships
  /\ gameState.npcRelationships["NewNPC"].familiarity = 100
  /\ gameState.npcRelationships["Mitch"].trust = 0
  /\ Len(stateHistory) >= 1
  /\ stateHistory[Len(stateHistory)].npcRelationships["Mitch"].trust = 100

\* the number of advance steps of a day: one for each zero-slot segment and
\* three for each normal one
CycleLength == Cardinality(ZeroSlotSegments) + 3 * Cardinality(NormalSegments)

\* the place of a time in the day: 0 at Pre-Dawn, then the slots of the
\* normal segments in order, then Post-Night
CyclePos(time) ==
  IF time.segment = "Pre-Dawn" THEN 0
  ELSE IF time.segment = "Post-Night" THEN CycleLength - 1
  ELSE 1 + 3 * (IndexOf(time.segment) - 2) + time.slotsUsed

\* C32: time always makes forward progress: from Pre-Dawn with slotsUsed 0,
\* exactly 17 consecutive advance steps (1 + 5 x 3 + 1) return to Pre-Dawn
\* with slotsUsed 0, exactly one of them reports newDay, and the day counter
\* increases by exactly 1 over that cycle and never decreases except
\* through undo, load or new game.
C32_SeventeenStepCycle ==
  [][/\ CycleLength = 17
     /\ lastOp'.op \in {"devAdvance", "submit"} =>
          /\ CyclePos(gameState.time) \in 0..(CycleLength - 1)
          /\ CyclePos(gameState'.time) = (CyclePos(gameState.time) + 1) % CycleLength
          /\ (CyclePos(gameState'.time) = 0) = (gameState'.time.slotsUsed = 0
                                                /\ gameState'.time.segment = "Pre-Dawn")
          /\ gameState'.time.day =
               gameState.time.day + (IF CyclePos(gameState'.time) = 0 THEN 1 ELSE 0)
     /\ gameState'.time.day < gameState.time.day =>
          lastOp'.op \in {"undo", "load", "newGame"}]_vars

\* two whole days have been advanced through from the boot state
C32_Witness ==
  /\ lastOp.op = "devAdvance"
  /\ ~gameState.config.present
  /\ gameState.time = [day |-> 2, segment |-> "Pre-Dawn", slotsUsed |-> 0]

\* C33: if new game or load is invoked while a turn is in flight, the late
\* response of that turn is not applied to the replacement state: after new
\* game or load, stats, location, relationships and history change only
\* through commands issued after it.
C33_LateResponseNotApplied ==
  [][orphaned' = orphaned - 1 =>
       \A f \in {"stats", "location", "npcRelationships", "history"} :
         gameState'[f] = gameState[f]]_vars

\* C34: an equip performed while a turn is in flight is not lost: when the
\* response (or the failure notice) is applied, equipped and the items in
\* the inventory are exactly those of the state just before the response
\* arrived, because step 5 updates the current state and not the state
\* captured at submission.
C34_EquipInFlightNotLost ==
  [][InFlight' = InFlight - 1 =>
       /\ gameState'.equipped = gameState.equipped
       /\ gameState'.inventory = gameState.inventory]_vars

\* the dress was put on between the submission, whose snapshot has no dress,
\* and the response, which has been applied: the dress is still on
C34_Witness ==
  /\ lastOp.op = "response"
  /\ InFlight = 0
  /\ turns = 1
  /\ Len(stateHistory) = 1
  /\ stateHistory[1].equipped["fullBody"] = Null
  /\ gameState.equipped["fullBody"] = ITEM_DATABASE[9]
  /\ Len(gameState.inventory) = Len(stateHistory[1].inventory) - 1
  /\ gameState.location = "cafe_downtown"

\* C35: new game is deterministic with respect to what preceded it: for any
\* two command histories (turns played on the boot state before the first
\* new game included), new game with the same configuration yields the same
\* stats, relationships, inventory, equipped, time and location. One of the
\* two histories is taken to be the empty one: a new game yields what it
\* yields right after boot.
C35_NewGameIndependentOfPast ==
  [][\A t \in BOOLEAN :
       handleNewGameConfig(t) =>
         \A f \in {"stats", "npcRelationships", "inventory", "equipped",
                   "time", "location"} :
           gameState'[f] = NewGameState(INITIAL_GAME_STATE, t)[f]]_vars

\* C36: forceEquip(item) never removes the item from the inventory and never
\* discards a displaced item, so each call increases |inventory| + |occupied
\* slots| by exactly one (the forced item is added to the world), whatever
\* the prior occupancy of the target, top, bottom and fullBody slots.
C36_ForceEquipAddsOne ==
  [][\A item \in DevPicks :
       DevForceEquip(item) =>
         /\ ItemCount(gameState') = ItemCount(gameState) + 1
         /\ \A x \in ItemsOf(gameState) \cup {item} :
               Count(gameState', x) = Count(gameState, x) + (IF x = item THEN 1 ELSE 0)
         /\ Occurrences(gameState'.inventory, item)
              >= Occurrences(gameState.inventory, item)
         /\ gameState'.equipped[getSlotFromType(item.type)] = item]_vars

\* the dress has been forced on over a top and a bottom while another copy
\* of it is owned: both displaced items and the owned copy are kept
C36_Witness ==
  /\ lastOp.op = "forceEquip"
  /\ lastOp.item = ITEM_DATABASE[9]
  /\ {"top", "bottom"} \subseteq lastOp.was
  /\ ItemCount(gameState) = Len(ITEM_DATABASE) + 1
  /\ Count(gameState, ITEM_DATABASE[9]) = 2
  /\ Occupied(gameState) = {"fullBody"}

\* C37: equip, forceEquip and dev add-to-inventory change only inventory and
\* equipped: time, stats, location, history, relationships and the undo
\* stack are unchanged, so no snapshot is pushed for them, and a later undo
\* reverts every equipment change made since the last turn's snapshot.
C37_OutfitChangesFrame ==
  [][/\ lastOp'.op \in {"equip", "equip_noop", "devAdd", "forceEquip"} =>
          /\ \A f \in {"time", "stats", "location", "history",
                       "npcRelationships", "config"} :
                gameState'[f] = gameState[f]
          /\ stateHistory' = stateHistory
     /\ (handleUndo /\ Len(stateHistory) > 0 /\ ~isProcessing) =>
          /\ gameState'.equipped = stateHistory[Len(stateHistory)].equipped
          /\ gameState'.inventory = stateHistory[Len(stateHistory)].inventory]_vars

\* after a completed turn the blouse was forced on: the stack still holds
\* the turn's snapshot only, without it
C37_Witness ==
  /\ lastOp.op = "forceEquip"
  /\ ~isProcessing
  /\ Len(stateHistory) = 1
  /\ Occupied(stateHistory[1]) = {}
  /\ ItemCount(stateHistory[1]) = Len(ITEM_DATABASE)
  /\ ItemCount(gameState) = Len(ITEM_DATABASE) + 1
  /\ gameState.equipped["top"] = ITEM_DATABASE[5]
  /\ gameState.history[Len(gameState.history)] = Entry("model", "NARRATIVE")

\* C38: a turn submitted with no API key configured does not start a turn:
\* exactly one system message is appended to the history and nothing else
\* changes (no snapshot pushed, time not advanced, no rollover, the player's
\* text not appended, the busy flag not set).
C38_NoKeyStartsNoTurn ==
  [][processTurn(PlayerText, FALSE) =>
       /\ gameState'.history =
            Append(gameState.history, Entry("model", "NO_API_KEY"))
       /\ \A f \in OtherFields : gameState'[f] = gameState[f]
       /\ stateHistory' = stateHistory
       /\ isProcessing' = isProcessing
       /\ InFlight' = InFlight]_vars

\* a submission without a key on the loaded game, at the end of its day: the
\* message is in the history, the day has not rolled over, no turn has begun
C38_Witness ==
  /\ lastOp.op = "noKey"
  /\ ~isProcessing
  /\ InFlight = 0
  /\ Len(stateHistory) = 0
  /\ gameState.time = [day |-> 1, segment |-> "Post-Night", slotsUsed |-> 0]
  /\ gameState.stats["FATIGUE"] = 30
  /\ gameState.history[Len(gameState.history)] = Entry("model", "NO_API_KEY")
  /\ gameState.history[Len(gameState.history) - 1] = Entry("model", "NARRATIVE")

====
